---------------------------- MODULE Spec2Model ----------------------------
(***************************************************************************)
(* State-machine model of the component status resolver                    *)
(* (ComponentStatusLoader) and of the local removal engine (removeLocal).  *)
(*                                                                         *)
(* External collaborators (the scope, the working-copy loader, the         *)
(* components list) answer nondeterministically: each answer is an input   *)
(* drawn from a small set when the call is made.                           *)
(***************************************************************************)
EXTENDS Naturals, Integers, Sequences, FiniteSets, TLC

(* ------------------------------ bounds -------------------------------- *)

\* cap of the counting loader stub, per identity
MaxLoads == 2
\* longest list of ids handed to removeComponents
MaxBatch == 2

Ids == {"a", "b"}

\* call slots of getComponentStatusById: slot 0 belongs to removeLocal, slot 1
\* to a client that calls one at a time, the others to the positions of a
\* getManyComponentsStatuses batch
Callers == {1}
BatchSlot(i) == i + 1
Slots == {0} \cup Callers \cup {BatchSlot(i) : i \in 1..MaxBatch}

(* --------------------------- status records --------------------------- *)

\* a facet of a ComponentStatus is undefined, true or false
Facet == {"undefined", "true", "false"}

\* const status: ComponentStatus = {}
EmptyStatus ==
  [modified |-> "undefined", newlyCreated |-> "undefined", deleted |-> "undefined",
   staged |-> "undefined", notExist |-> "undefined", missingFromScope |-> "undefined"]

FacetOf(b) == IF b THEN "true" ELSE "false"

\* JavaScript truthiness of a facet
Truthy(f) == f = "true"

(* ----------------------- collaborators' answers ----------------------- *)

\* scope.getModelComponentIfExist: no record, a record whose head is
\* VERSION_ZERO, a record with a real head
ModelAnswers == {"none", "zero", "versioned"}

\* consumer.loadComponents: components loaded, removed components reported,
\* or one of the errors it throws
LoadAnswers ==
  {"ok", "removed", "MissingFilesFromComponent", "ComponentNotFoundInPath",
   "MissingBitMapComponent", "ComponentsPendingImport", "MainFileRemoved",
   "GeneralError"}

AllScenarios ==
  [model : ModelAnswers, load : LoadAnswers, hasVersion : BOOLEAN,
   refFound : BOOLEAN, objectFound : BOOLEAN, staged : BOOLEAN,
   isModified : BOOLEAN]

\* answers getStatus never asks for are fixed to FALSE, so that every
\* scenario is one distinguishable run of the collaborators
Canonical(sc) ==
  LET reachesDiverge == sc.load = "ok" /\ sc.model = "versioned"
      reachesRef == reachesDiverge /\ sc.hasVersion
      reachesObject == reachesRef /\ sc.refFound
      reachesModified == reachesObject /\ sc.objectFound
  IN /\ (~reachesDiverge => ~sc.hasVersion)
     /\ (~reachesRef => ~sc.refFound)
     /\ (~reachesObject => ~sc.objectFound)
     /\ (~reachesModified => ~sc.staged /\ ~sc.isModified)

Scenarios == {sc \in AllScenarios : Canonical(sc)}

NoScenario ==
  [model |-> "none", load |-> "none", hasVersion |-> FALSE, refFound |-> FALSE,
   objectFound |-> FALSE, staged |-> FALSE, isModified |-> FALSE]

(* ------------------------------ getStatus ----------------------------- *)

Returns(s) == [err |-> "none", status |-> s]
Throws(e) == [err |-> e, status |-> EmptyStatus]

FilesMissingErrors ==
  {"MissingFilesFromComponent", "ComponentNotFoundInPath", "MissingBitMapComponent"}

\* slip: files missing always means deleted, the model record is not looked at
GetStatusCatch_AlwaysDeleted(sc) ==
  IF sc.load \in FilesMissingErrors
  THEN Returns([EmptyStatus EXCEPT !.deleted = "true"])
  ELSE IF sc.load = "ComponentsPendingImport"
  THEN Returns(EmptyStatus)
  ELSE Throws(sc.load)

\* slip: the catch block swallows every error of the loader
GetStatusCatch_Swallows(sc) ==
  IF sc.load \in FilesMissingErrors
  THEN IF sc.model # "none"
       THEN Returns([EmptyStatus EXCEPT !.deleted = "true"])
       ELSE Returns([EmptyStatus EXCEPT !.notExist = "true"])
  ELSE Returns(EmptyStatus)

\* the catch block of getStatus
GetStatusCatch(sc) ==
  IF sc.load \in FilesMissingErrors
  THEN IF sc.model # "none"
       THEN Returns([EmptyStatus EXCEPT !.deleted = "true"])
       ELSE Returns([EmptyStatus EXCEPT !.notExist = "true"])
  ELSE IF sc.load = "ComponentsPendingImport"
  THEN Returns(EmptyStatus)   \* `status.missingFromScope;` assigns nothing
  ELSE Throws(sc.load)

\* what getStatus does once a model record with a real head is known
GetStatusVersioned(sc) ==
  IF ~sc.hasVersion
  THEN Throws("ComponentOutOfSync")
  ELSE IF ~sc.refFound
  THEN Throws("VersionNotFound")
  ELSE IF ~sc.objectFound
  THEN Throws("FailedLoadingVersion")
  ELSE Returns([EmptyStatus EXCEPT !.staged = FacetOf(sc.staged),
                                   !.modified = FacetOf(sc.isModified)])

\* slip: the VERSION_ZERO head is not recognised as newly created
GetStatusLoaded_NoVersionZero(sc) ==
  IF sc.model = "none"
  THEN Returns([EmptyStatus EXCEPT !.newlyCreated = "true"])
  ELSE GetStatusVersioned(sc)

\* slip: the version is looked up in the model before hasVersion is checked
GetStatusLoaded_RefFirst(sc) ==
  IF sc.model \in {"none", "zero"}
  THEN Returns([EmptyStatus EXCEPT !.newlyCreated = "true"])
  ELSE IF ~sc.refFound
  THEN Throws("VersionNotFound")
  ELSE IF ~sc.hasVersion
  THEN Throws("ComponentOutOfSync")
  ELSE GetStatusVersioned(sc)

\* the part of getStatus after the working copy has loaded
GetStatusLoaded(sc) ==
  IF sc.model = "none"
  THEN Returns([EmptyStatus EXCEPT !.newlyCreated = "true"])
  ELSE IF sc.model = "zero"
  THEN Returns([EmptyStatus EXCEPT !.newlyCreated = "true"])
  ELSE GetStatusVersioned(sc)

\* slip: `return status` is missing after the removed components are seen
GetStatus_NoReturnOnRemoved(sc) ==
  IF sc.load = "removed"
  THEN LET rest == GetStatusLoaded(sc)
       IN IF rest.err = "none"
          THEN Returns([rest.status EXCEPT !.deleted = "true"])
          ELSE rest
  ELSE IF sc.load = "ok"
  THEN GetStatusLoaded(sc)
  ELSE GetStatusCatch(sc)

GetStatus(sc) ==
  IF sc.load = "removed"
  THEN Returns([EmptyStatus EXCEPT !.deleted = "true"])
  ELSE IF sc.load = "ok"
  THEN GetStatusLoaded(sc)
  ELSE GetStatusCatch(sc)

(* ------------------------------- state -------------------------------- *)

VARIABLES
  cache,        \* _componentsStatusCache: id string -> status record
  loaderCalls,  \* per identity, how often getStatus called consumer.loadComponents
  call,         \* per slot, the getComponentStatusById call it is in
  world,        \* per identity asked about, what scope and workspace answer
  rl,           \* the removeLocal call and what it did
  many,         \* the getManyComponentsStatuses call
  ix,           \* the indexByDepId call: its arguments and its result
  rr,           \* the removeComponents call: its arguments, its remote calls
  bits,         \* a BitIds collection and the last operation called on it
  ld            \* a LaneDiffCmd.report call: its diff results and its output

vars == <<cache, loaderCalls, call, world, rl, many, ix, rr, bits, ld>>

IdleCall ==
  [pc |-> "idle", id |-> "a", sc |-> NoScenario, out |-> Returns(EmptyStatus),
   computed |-> FALSE]

InitStatus ==
  /\ cache = <<>>
  /\ loaderCalls = [i \in Ids |-> 0]
  /\ call = [c \in Slots |-> IdleCall]
  /\ world = <<>>

(* ----------------------- getComponentStatusById ----------------------- *)

\* slip: an entry with no facet set counts as no entry
CacheMiss_EmptyIsMiss(id) ==
  IF id \in DOMAIN cache THEN cache[id] = EmptyStatus ELSE TRUE

\* !this._componentsStatusCache[id.toString()]
CacheMiss(id) == id \notin DOMAIN cache

CachePut(id, s) == [i \in DOMAIN cache \cup {id} |-> IF i = id THEN s ELSE cache[i]]

\* slip: the whole cache is dropped
CacheDelete_All(id) == <<>>

\* delete this._componentsStatusCache[id.toString()]
CacheDelete(id) == [i \in DOMAIN cache \ {id} |-> cache[i]]

\* the cache holds an entry: the call returns it without suspending
CallHit(c, id) ==
  /\ call[c].pc = "idle"
  /\ ~CacheMiss(id)
  /\ call' = [call EXCEPT ![c] =
       [pc |-> "returned", id |-> id, sc |-> NoScenario,
        out |-> Returns(cache[id]), computed |-> FALSE]]
  /\ UNCHANGED <<cache, loaderCalls, world>>

\* no entry: getStatus starts, asks the collaborators and suspends. The
\* collaborators answer sc: as they did before, as long as the workspace of
\* the identity has not changed
CallMiss(c, id, sc) ==
  /\ call[c].pc = "idle"
  /\ CacheMiss(id)
  /\ loaderCalls[id] < MaxLoads
  /\ id \in DOMAIN world => sc = world[id]
  /\ world' = [i \in DOMAIN world \cup {id} |-> IF i = id THEN sc ELSE world[i]]
  /\ call' = [call EXCEPT ![c] =
       [pc |-> "pending", id |-> id, sc |-> sc, out |-> GetStatus(sc),
        computed |-> TRUE]]
  /\ loaderCalls' = [loaderCalls EXCEPT ![id] = @ + 1]
  /\ UNCHANGED cache

\* getStatus settles: a status is stored and the stored entry returned, an
\* error rejects the call and stores nothing
CallSettle(c) ==
  /\ call[c].pc = "pending"
  /\ IF call[c].out.err = "none"
     THEN /\ cache' = CachePut(call[c].id, call[c].out.status)
          /\ call' = [call EXCEPT ![c].pc = "returned",
                                  ![c].out = Returns(cache'[call[c].id])]
     ELSE /\ cache' = cache
          /\ call' = [call EXCEPT ![c].pc = "rejected"]
  /\ UNCHANGED <<loaderCalls, world>>

\* the client has taken the result
CallRelease(c) ==
  /\ call[c].pc \in {"returned", "rejected"}
  /\ call' = [call EXCEPT ![c] = IdleCall]
  /\ UNCHANGED <<cache, loaderCalls, world>>

ClearOneComponentCache(id) ==
  /\ cache' = CacheDelete(id)
  /\ UNCHANGED <<loaderCalls, call, world>>

\* between calls the user edits, tags, fetches or deletes the component: the
\* collaborators may answer differently from now on
WorkspaceChange(id) ==
  /\ \A c \in Slots : call[c].pc = "idle"
  /\ id \in DOMAIN world
  /\ world' = [i \in DOMAIN world \ {id} |-> world[i]]
  /\ UNCHANGED <<cache, loaderCalls, call>>

(* ------------------------------ id lists ------------------------------ *)

Range(s) == {s[i] : i \in DOMAIN s}

\* ids.filter(keep)
FilterIn(s, keep) == LET Test(x) == x \in keep IN SelectSeq(s, Test)

\* R.uniqBy(JSON.stringify, ids): the first occurrence of every id
RECURSIVE UniqFromArray(_)
UniqFromArray(s) ==
  IF s = <<>> THEN <<>>
  ELSE LET front == UniqFromArray(SubSeq(s, 1, Len(s) - 1))
           last == s[Len(s)]
       IN IF last \in Range(front) THEN front ELSE Append(front, last)

\* the id lists removeComponents may be called with
Batches == UNION {[1..n -> Ids] : n \in 0..MaxBatch}

(* ---------------------------- removeLocal ----------------------------- *)

NotCalled == [called |-> FALSE, ids |-> <<>>]
CalledWith(ids) == [called |-> TRUE, ids |-> ids]

\* new RemovedLocalObjects()
EmptyRemovedLocalObjects ==
  [removedComponentIds |-> <<>>, missingComponents |-> <<>>,
   modifiedComponents |-> <<>>, dependentBits |-> <<>>, removedFromLane |-> <<>>]

IdleRemove ==
  [pc |-> "idle", bitIds |-> <<>>, force |-> FALSE, track |-> FALSE,
   deleteFiles |-> FALSE, i |-> 1,
   modifiedComponents |-> <<>>, nonModifiedComponents |-> <<>>,
   statuses |-> <<>>,            \* the status records the status loop was given
   newComponents |-> {},         \* what listNewComponents answered
   removeMany |-> NotCalled,     \* ids handed to scope.removeMany
   removedFromScope |-> <<>>,    \* removedComponentIds of scope.removeMany
   deleteComponentsFiles |-> NotCalled,
   removeFromPackageJson |-> NotCalled,
   cleanFromBitMap |-> NotCalled,
   result |-> EmptyRemovedLocalObjects, error |-> "none"]

InitRemove == rl = IdleRemove

\* Component.isComponentInvalidByErrorType: the errors of a component that
\* cannot be loaded (a missing main file, a component out of sync)
InvalidComponentErrors == {"MainFileRemoved", "ComponentOutOfSync"}
IsComponentInvalidByErrorType(err) == err \in InvalidComponentErrors

\* scope.removeMany(ids, force): ids the scope does not hold are reported
\* missing; the ones it holds are removed unless some has dependents and
\* force is off, and then the dependents are reported instead. On an active
\* lane the removed ids are reported as removed from the lane as well
ScopeRemoveMany(ids, force, found, dependents, lane) ==
  LET foundComponents == FilterIn(ids, found)
      blocking == FilterIn(foundComponents, dependents)
      removes == force \/ blocking = <<>>
      removed == IF removes THEN UniqFromArray(foundComponents) ELSE <<>>
  IN [removedComponentIds |-> removed,
      missingComponents |-> UniqFromArray(FilterIn(ids, Ids \ found)),
      dependentBits |-> IF removes THEN <<>> ELSE UniqFromArray(blocking),
      removedFromLane |-> IF lane THEN removed ELSE <<>>]

\* the scope of an id; "a" has none
NoScope == ""
ScopeOf(id) ==
  CASE id = "a" -> NoScope
    [] id = "b" -> "s1"
    [] id = "c" -> "s1"
    [] id = "d" -> "s2"

\* id.isLocal(): the id has no scope
IsLocal(id) == ScopeOf(id) = NoScope

\* partition(bitIdsLatest, (id) => id.isLocal())
LocalIds(ids) == LET Test(id) == IsLocal(id) IN SelectSeq(ids, Test)
RemoteIds(ids) == LET Test(id) == ~IsLocal(id) IN SelectSeq(ids, Test)

\* GeneralError: unable to remove the remote components ... as they don't
\* contain a scope-name
NoScopeNameError == "GeneralError: don't contain a scope-name"

\* slip: ids without a scope are refused in either mode
MustReject_AnyMode(remote, localIds) == localIds # <<>>

\* slip: ids without a scope are never refused
MustReject_Never(remote, localIds) == FALSE

\* if (remote && localIds.length)
MustReject(remote, localIds) == remote /\ localIds # <<>>

\* removeComponents, remote = false: removeLocal starts
RemoveStart(ids, force, track, deleteFiles) ==
  /\ rl.pc = "idle"
  /\ rl' =
       IF MustReject(FALSE, LocalIds(ids))
       THEN [IdleRemove EXCEPT !.bitIds = ids, !.pc = "threw", !.error = NoScopeNameError]
       ELSE [IdleRemove EXCEPT
              !.bitIds = ids, !.force = force, !.track = track,
              !.deleteFiles = deleteFiles,
              !.pc = IF ids = <<>> THEN "done" ELSE IF force THEN "remove" ELSE "status"]
  /\ UNCHANGED <<cache, loaderCalls, call, world, many, ix, rr, bits, ld>>

\* the status loop asks for the status of the next id
RemoveStatusHit ==
  /\ rl.pc = "status"
  /\ CallHit(0, rl.bitIds[rl.i])
  /\ UNCHANGED <<rl, many, ix, rr, bits, ld>>

RemoveStatusMiss(sc) ==
  /\ rl.pc = "status"
  /\ CallMiss(0, rl.bitIds[rl.i], sc)
  /\ UNCHANGED <<rl, many, ix, rr, bits, ld>>

RemoveStatusSettle ==
  /\ rl.pc = "status"
  /\ CallSettle(0)
  /\ UNCHANGED <<rl, many, ix, rr, bits, ld>>

\* does the status loop put an id with this outcome in modifiedComponents
IsModifiedOutcome(out) == out.err = "none" /\ Truthy(out.status.modified)

\* does the status loop rethrow
Rethrows(out) == out.err # "none" /\ ~IsComponentInvalidByErrorType(out.err)

\* the body of the status loop, once getComponentStatusById has settled
RemoveClassify ==
  /\ rl.pc = "status"
  /\ call[0].pc \in {"returned", "rejected"}
  /\ LET id == rl.bitIds[rl.i]
         out == call[0].out
         more == rl.i < Len(rl.bitIds)
     IN rl' =
          IF Rethrows(out)
          THEN [rl EXCEPT !.pc = "threw", !.error = out.err]
          ELSE [rl EXCEPT
                 !.pc = IF more THEN "status" ELSE "remove",
                 !.i = @ + 1,
                 !.modifiedComponents =
                    IF IsModifiedOutcome(out) THEN Append(@, id) ELSE @,
                 !.nonModifiedComponents =
                    IF IsModifiedOutcome(out) THEN @ ELSE Append(@, id),
                 !.statuses =
                    IF out.err = "none"
                    THEN [j \in DOMAIN @ \cup {id} |->
                            IF j = id THEN out.status ELSE @[j]]
                    ELSE @]
  /\ call' = [call EXCEPT ![0] = IdleCall]
  /\ UNCHANGED <<cache, loaderCalls, world, many, ix, rr, bits, ld>>

\* slip: the modified components are not held back
IdsToRemove_All(force, bitIds, nonModifiedComponents) == bitIds

\* const idsToRemove = force ? bitIds : nonModifiedComponents
IdsToRemove(force, bitIds, nonModifiedComponents) ==
  IF force THEN bitIds ELSE nonModifiedComponents

\* slip: every candidate is handed to the scope
IdsToRemoveFromScope_All(idsToRemove, newComponents) == idsToRemove

\* idsToRemove.filter((id) => !newComponents.hasWithoutVersion(id))
IdsToRemoveFromScope(idsToRemove, newComponents) ==
  FilterIn(idsToRemove, Ids \ newComponents)

\* slip: the workspace is cleaned whatever the list holds
HasLength_Always(ids) == TRUE

\* if (idsToCleanFromWorkspace.length)
HasLength(ids) == ids # <<>>

\* removeLocal from idsToRemove to its result
RemoveFinish(newComponents, found, dependents, invalid, lane) ==
  /\ rl.pc = "remove"
  \* the scope that was asked for the model records is the one that removes
  /\ \A id \in DOMAIN world : id \in found <=> world[id].model # "none"
  /\ LET idsToRemove == IdsToRemove(rl.force, rl.bitIds, rl.nonModifiedComponents)
         idsToRemoveFromScope == IdsToRemoveFromScope(idsToRemove, newComponents)
         newIds == FilterIn(idsToRemove, newComponents)
         componentsToRemove == FilterIn(idsToRemove, Ids \ invalid)
         scopeResult ==
           ScopeRemoveMany(idsToRemoveFromScope, rl.force, found, dependents, lane)
         idsToCleanFromWorkspace == newIds \o scopeResult.removedComponentIds
         cleans == HasLength(idsToCleanFromWorkspace)
     IN rl' = [rl EXCEPT
          !.pc = "done",
          !.newComponents = newComponents,
          !.removeMany = CalledWith(idsToRemoveFromScope),
          !.removedFromScope = scopeResult.removedComponentIds,
          !.deleteComponentsFiles =
             IF cleans /\ rl.deleteFiles
             THEN CalledWith(idsToCleanFromWorkspace) ELSE NotCalled,
          !.removeFromPackageJson =
             IF cleans /\ ~rl.track
             THEN CalledWith(FilterIn(componentsToRemove, Range(idsToCleanFromWorkspace)))
             ELSE NotCalled,
          !.cleanFromBitMap =
             IF cleans /\ ~rl.track
             THEN CalledWith(idsToCleanFromWorkspace) ELSE NotCalled,
          !.result =
             [removedComponentIds |->
                UniqFromArray(idsToCleanFromWorkspace \o scopeResult.removedComponentIds),
              missingComponents |-> scopeResult.missingComponents,
              modifiedComponents |-> rl.modifiedComponents,
              dependentBits |-> scopeResult.dependentBits,
              removedFromLane |-> scopeResult.removedFromLane]]
  /\ UNCHANGED <<cache, loaderCalls, call, world, many, ix, rr, bits, ld>>

(* --------------------- getManyComponentsStatuses ---------------------- *)

IdleMany ==
  [pc |-> "idle", ids |-> <<>>,
   done |-> {},        \* positions whose mapper has finished
   results |-> <<>>, error |-> "none"]

InitMany == many = IdleMany

\* getManyComponentsStatuses(ids): mapSeries starts on the list
ManyStart(ids) ==
  /\ many.pc = "idle"
  /\ many' = [IdleMany EXCEPT !.ids = ids,
                              !.pc = IF ids = <<>> THEN "done" ELSE "running"]
  /\ UNCHANGED <<cache, loaderCalls, call, world, rl, ix, rr, bits, ld>>

\* the mapper of position i has been entered
Started(i) == call[BatchSlot(i)].pc # "idle" \/ i \in many.done

\* slip: the mappers are started together (a parallel map)
MayStart_Parallel(i) == many.pc = "running" /\ ~Started(i)

\* mapSeries enters the mapper of position i once those before it have finished
MayStart(i) ==
  /\ many.pc = "running"
  /\ ~Started(i)
  /\ \A j \in 1..(i - 1) : j \in many.done

\* await this.getComponentStatusById(id)
ManyCallHit(i) ==
  /\ MayStart(i)
  /\ CallHit(BatchSlot(i), many.ids[i])
  /\ UNCHANGED <<rl, many, ix, rr, bits, ld>>

ManyCallMiss(i, sc) ==
  /\ MayStart(i)
  /\ CallMiss(BatchSlot(i), many.ids[i], sc)
  /\ UNCHANGED <<rl, many, ix, rr, bits, ld>>

ManyCallSettle(i) ==
  /\ CallSettle(BatchSlot(i))
  /\ UNCHANGED <<rl, many, ix, rr, bits, ld>>

\* results.push({ id, status }); a rejected call rejects the batch
ManyPush(i) ==
  /\ many.pc = "running"
  /\ call[BatchSlot(i)].pc \in {"returned", "rejected"}
  /\ LET out == call[BatchSlot(i)].out
         done == many.done \cup {i}
     IN many' =
          IF out.err # "none"
          THEN [many EXCEPT !.pc = "rejected", !.error = out.err, !.done = done]
          ELSE [many EXCEPT
                 !.results = Append(@, [id |-> many.ids[i], status |-> out.status]),
                 !.done = done,
                 !.pc = IF done = DOMAIN many.ids THEN "done" ELSE "running"]
  /\ call' = [call EXCEPT ![BatchSlot(i)] = IdleCall]
  /\ UNCHANGED <<cache, loaderCalls, world, rl, ix, rr, bits, ld>>

(* ---------------------------- indexByDepId ---------------------------- *)

\* declarations plus policy entries one indexByDepId call is given
MaxInputs == 2

Comps == {"X", "Y"}
DepKeys == {"dependencies", "devDependencies", "peerDependencies", "peerDependenciesMeta"}
Names == {"left-pad", "react"}
Ranges == {"^1.0.0", "^2.0.0"}
Versions == {"1.3.0", "2.0.0"}

\* the lifecycle type of a manifest key
LIFECYCLE_TYPE_BY_KEY_NAME(depKeyName) ==
  CASE depKeyName = "dependencies" -> "runtime"
    [] depKeyName = "devDependencies" -> "dev"
    [] depKeyName = "peerDependencies" -> "peer"
    [] OTHER -> "undefined"

\* the keys a caller names in hoistedDepFields
HoistableKeys == {k \in DepKeys : LIFECYCLE_TYPE_BY_KEY_NAME(k) # "undefined"}

\* hoistedDepFields?: not given, or a list of keys
NotGiven == [given |-> FALSE, fields |-> <<>>]
Given(fields) == [given |-> TRUE, fields |-> fields]
HoistedDepFields ==
  {NotGiven} \cup
  {Given(f) : f \in {g \in UNION {[1..n -> HoistableKeys] : n \in 0..2} :
                       \A i, j \in DOMAIN g : g[i] = g[j] => i = j}}

\* WorkspacePolicy entries
PolicyEntries ==
  [dependencyId : Names, value : [version : Versions, preserve : BOOLEAN],
   lifecycleType : {"runtime", "peer"}]

\* metadata: {}
EmptyMetadata == [preservedVersion |-> "undefined", preservedLifecycleType |-> "undefined"]

\* an object as the list of its own keys in insertion order
HasKey(obj, key) == \E j \in DOMAIN obj : obj[j].key = key
ValueAt(obj, key) == obj[CHOOSE j \in DOMAIN obj : obj[j].key = key].deps

\* pick(names, obj): the named keys obj has, in the order of names
RECURSIVE Pick(_, _)
Pick(names, obj) ==
  IF names = <<>> THEN <<>>
  ELSE LET front == Pick(SubSeq(names, 1, Len(names) - 1), obj)
           name == names[Len(names)]
       IN IF HasKey(obj, name) /\ ~HasKey(front, name)
          THEN Append(front, [key |-> name, deps |-> ValueAt(obj, name)])
          ELSE front

\* omit(names, obj): obj without the named keys, in the order of obj
Omit(names, obj) == LET Kept(e) == e.key \notin names IN SelectSeq(obj, Kept)

\* slip: every bucket of the component is indexed when no list is given
ConsideredBuckets_KeepsMeta(hoistedDepFields, depsObject) ==
  IF hoistedDepFields.given
  THEN Pick(hoistedDepFields.fields, depsObject)
  ELSE depsObject

\* the buckets of one component that are indexed
ConsideredBuckets(hoistedDepFields, depsObject) ==
  IF hoistedDepFields.given
  THEN Pick(hoistedDepFields.fields, depsObject)
  ELSE Omit({"peerDependenciesMeta"}, depsObject)

\* the function addComponentDepToDepIdIndex returns, applied to (range, depId)
AddComponentDepToDepIdIndex(index, origin, lifecycleType, range, depId) ==
  LET componentItem ==
        [origin |-> origin, range |-> range, lifecycleType |-> lifecycleType]
  IN IF depId \notin DOMAIN index
     THEN [n \in DOMAIN index \cup {depId} |->
             IF n = depId
             THEN [componentItems |-> <<componentItem>>, metadata |-> EmptyMetadata]
             ELSE index[n]]
     ELSE [index EXCEPT ![depId].componentItems = Append(@, componentItem)]

\* forEachObjIndexed(addComponentDepToDepIdIndex(index, origin, lifecycleType), deps)
RECURSIVE ForEachDep(_, _, _, _)
ForEachDep(index, origin, lifecycleType, deps) ==
  IF deps = <<>> THEN index
  ELSE ForEachDep(
         AddComponentDepToDepIdIndex(index, origin, lifecycleType,
                                     Head(deps).range, Head(deps).depId),
         origin, lifecycleType, Tail(deps))

\* the function addSpecificLifeCycleDepsToIndex returns, applied to (deps, depKeyName)
AddSpecificLifeCycleDepsToIndex(index, origin, deps, depKeyName) ==
  ForEachDep(index, origin, LIFECYCLE_TYPE_BY_KEY_NAME(depKeyName), deps)

\* forEachObjIndexed(addSpecificLifeCycleDepsToIndex(result, compPackageName), depsObject)
RECURSIVE ForEachBucket(_, _, _)
ForEachBucket(index, origin, depsObject) ==
  IF depsObject = <<>> THEN index
  ELSE ForEachBucket(
         AddSpecificLifeCycleDepsToIndex(index, origin,
                                         Head(depsObject).deps, Head(depsObject).key),
         origin, Tail(depsObject))

\* componentDependenciesMap.forEach(...)
RECURSIVE ForEachComponent(_, _, _)
ForEachComponent(index, map, hoistedDepFields) ==
  IF map = <<>> THEN index
  ELSE ForEachComponent(
         ForEachBucket(index, Head(map).origin,
                       ConsideredBuckets(hoistedDepFields, Head(map).depsObject)),
         Tail(map), hoistedDepFields)

\* slip: the metadata is set whether or not the index has the item
SetMetadataToExistingIndexItem_Creates(index, depId, metadata) ==
  [n \in DOMAIN index \cup {depId} |->
     IF n = depId
     THEN [componentItems |-> IF n \in DOMAIN index THEN index[n].componentItems ELSE <<>>,
           metadata |-> metadata]
     ELSE index[n]]

\* only change existing items
SetMetadataToExistingIndexItem(index, depId, metadata) ==
  IF depId \in DOMAIN index
  THEN [index EXCEPT ![depId].metadata = metadata]
  ELSE index

\* preserved.forEach(...)
RECURSIVE ForEachPreserved(_, _)
ForEachPreserved(index, preserved) ==
  IF preserved = <<>> THEN index
  ELSE LET entry == Head(preserved)
           metadata == [preservedVersion |-> entry.value.version,
                        preservedLifecycleType |-> entry.lifecycleType]
       IN ForEachPreserved(
            SetMetadataToExistingIndexItem(index, entry.dependencyId, metadata),
            Tail(preserved))

\* slip: every policy entry is applied
AddPreservedFromRoot_NoFilter(index, rootPolicy) == ForEachPreserved(index, rootPolicy)

AddPreservedFromRoot(index, rootPolicy) ==
  LET IsPreserved(entry) == entry.value.preserve
  IN ForEachPreserved(index, SelectSeq(rootPolicy, IsPreserved))

IndexByDepId(rootPolicy, componentDependenciesMap, hoistedDepFields) ==
  AddPreservedFromRoot(
    ForEachComponent(<<>>, componentDependenciesMap, hoistedDepFields), rootPolicy)

\* the arguments of one indexByDepId call and what it returned
IdleIndex ==
  [pc |-> "input", componentDependenciesMap |-> <<>>, rootPolicy |-> <<>>,
   hoistedDepFields |-> NotGiven, result |-> <<>>]

InitIndex == ix = IdleIndex

\* number of declarations in the map
RECURSIVE SumLen(_)
SumLen(s) == IF s = <<>> THEN 0 ELSE Len(Head(s).deps) + SumLen(Tail(s))
RECURSIVE Declarations(_)
Declarations(map) ==
  IF map = <<>> THEN 0 ELSE SumLen(Head(map).depsObject) + Declarations(Tail(map))

Inputs == Declarations(ix.componentDependenciesMap) + Len(ix.rootPolicy)

\* depsObject[key][depId] = range
SetDep(depsObject, key, depId, range) ==
  IF HasKey(depsObject, key)
  THEN [j \in DOMAIN depsObject |->
          IF depsObject[j].key = key
          THEN [depsObject[j] EXCEPT !.deps = Append(@, [depId |-> depId, range |-> range])]
          ELSE depsObject[j]]
  ELSE Append(depsObject, [key |-> key, deps |-> <<[depId |-> depId, range |-> range]>>])

\* the caller's map gets one more declaration of a component
Declare(origin, key, depId, range) ==
  /\ ix.pc = "input"
  /\ Inputs < MaxInputs
  /\ LET map == ix.componentDependenciesMap
         Known == \E i \in DOMAIN map : map[i].origin = origin
     IN /\ \A i \in DOMAIN map :
             (map[i].origin = origin /\ HasKey(map[i].depsObject, key)) =>
               \A d \in Range(ValueAt(map[i].depsObject, key)) : d.depId # depId
        /\ ix' = [ix EXCEPT !.componentDependenciesMap =
                    IF Known
                    THEN [i \in DOMAIN map |->
                            IF map[i].origin = origin
                            THEN [map[i] EXCEPT
                                    !.depsObject = SetDep(@, key, depId, range)]
                            ELSE map[i]]
                    ELSE Append(map, [origin |-> origin,
                                      depsObject |-> SetDep(<<>>, key, depId, range)])]
  /\ UNCHANGED <<cache, loaderCalls, call, world, rl, many, rr, bits, ld>>

\* the caller's root policy gets one more entry
AddPolicyEntry(entry) ==
  /\ ix.pc = "input"
  /\ Inputs < MaxInputs
  /\ ix' = [ix EXCEPT !.rootPolicy = Append(@, entry)]
  /\ UNCHANGED <<cache, loaderCalls, call, world, rl, many, rr, bits, ld>>

\* indexByDepId(rootPolicy, componentDependenciesMap, hoistedDepFields)
IndexCall(hoistedDepFields) ==
  /\ ix.pc = "input"
  /\ ix' = [ix EXCEPT
              !.pc = "indexed",
              !.hoistedDepFields = hoistedDepFields,
              !.result = IndexByDepId(ix.rootPolicy, ix.componentDependenciesMap,
                                      hoistedDepFields)]
  /\ UNCHANGED <<cache, loaderCalls, call, world, rl, many, rr, bits, ld>>

(* ------------------ removeComponents with remote = true ----------------- *)

\* the ids a remote removal may be called with
AllIds == Ids \cup {"c", "d"}
RemoteBatches == UNION {[1..n -> AllIds] : n \in 0..MaxBatch}

\* Object.keys(groupArray(bitIds, 'scope')): the scopes in order of first sight
GroupKeys(bitIds) == UniqFromArray([i \in DOMAIN bitIds |-> ScopeOf(bitIds[i])])

\* groupedBitsByScope[key]
Group(bitIds, key) == LET Test(id) == ScopeOf(id) = key IN SelectSeq(bitIds, Test)

\* what resolvedRemote.deleteMany of a scope answers for the ids it was given
DeleteManyResult(key, idsStr) == [scope |-> key, removedComponentIds |-> idsStr]

\* what deleteViaCentralHub answers
HubResult(idsStr) == <<[scope |-> "bit.cloud", removedComponentIds |-> idsStr]>>

IdleRemote ==
  [pc |-> "idle", ids |-> <<>>, force |-> FALSE, error |-> "none",
   hubCalls |-> <<>>,          \* deleteViaCentralHub calls, as issued
   deleteManyCalls |-> <<>>,   \* deleteMany calls, as issued
   tasks |-> <<>>,             \* removeP: one promise per scope key
   completed |-> <<>>,         \* positions of removeP in the order they fulfilled
   remoteResult |-> <<>>, localResult |-> EmptyRemovedLocalObjects]

InitRemote == rr = IdleRemote

\* removeComponents, remote = true, up to its first await
RemoteStart(ids, force) ==
  /\ rr.pc = "idle"
  /\ rr' =
       IF MustReject(TRUE, LocalIds(ids))
       THEN [IdleRemote EXCEPT !.ids = ids, !.force = force,
                               !.pc = "threw", !.error = NoScopeNameError]
       ELSE [IdleRemote EXCEPT !.ids = ids, !.force = force,
                               !.pc = IF RemoteIds(ids) = <<>> THEN "returned" ELSE "remotes"]
  /\ UNCHANGED <<cache, loaderCalls, call, world, rl, many, ix, bits, ld>>

\* getScopeRemotes / getGlobalRemotes fails
RemotesFail ==
  /\ rr.pc = "remotes"
  /\ rr' = [rr EXCEPT !.pc = "threw", !.error = "RemotesError"]
  /\ UNCHANGED <<cache, loaderCalls, call, world, rl, many, ix, bits, ld>>

\* the remotes are known; removeP is built, every mapper runs to its first await
RemotesAnswer(shouldGoToCentralHub) ==
  /\ rr.pc = "remotes"
  /\ LET keys == GroupKeys(RemoteIds(rr.ids))
     IN rr' = IF shouldGoToCentralHub
              THEN [rr EXCEPT !.pc = "connect"]
              ELSE [rr EXCEPT
                     !.pc = "scopes",
                     !.tasks = [i \in DOMAIN keys |->
                                  [key |-> keys[i], pc |-> "resolving",
                                   result |-> <<>>, error |-> "none"]]]
  /\ UNCHANGED <<cache, loaderCalls, call, world, rl, many, ix, bits, ld>>

\* Http.connect settles; connected, deleteViaCentralHub is called
HubConnect(ok) ==
  /\ rr.pc = "connect"
  /\ rr' = IF ok
           THEN [rr EXCEPT
                  !.pc = "hub",
                  !.hubCalls = Append(@, [ids |-> RemoteIds(rr.ids), force |-> rr.force,
                                          idsAreLanes |-> FALSE])]
           ELSE [rr EXCEPT !.pc = "threw", !.error = "ConnectError"]
  /\ UNCHANGED <<cache, loaderCalls, call, world, rl, many, ix, bits, ld>>

\* deleteViaCentralHub settles
HubSettle(ok) ==
  /\ rr.pc = "hub"
  /\ rr' = IF ok
           THEN [rr EXCEPT !.pc = "returned",
                           !.remoteResult = HubResult(RemoteIds(rr.ids))]
           ELSE [rr EXCEPT !.pc = "threw", !.error = "DeleteError"]
  /\ UNCHANGED <<cache, loaderCalls, call, world, rl, many, ix, bits, ld>>

\* slip: the results are joined in the order the calls fulfilled
PromiseAll_CompletionOrder(tasks, completed) ==
  [i \in DOMAIN tasks |-> tasks[completed[i]].result]

\* Promise.all(removeP), every promise fulfilled: the results by position
PromiseAll(tasks, completed) == [i \in DOMAIN tasks |-> tasks[i].result]

\* Promise.all(removeP) after one of its promises settled: it rejects with
\* the first rejection and fulfils when every promise has fulfilled
Join(r) ==
  IF r.pc # "scopes" THEN r
  ELSE IF \E i \in DOMAIN r.tasks : r.tasks[i].pc = "rejected"
  THEN LET i == CHOOSE j \in DOMAIN r.tasks : r.tasks[j].pc = "rejected"
       IN [r EXCEPT !.pc = "threw", !.error = r.tasks[i].error]
  ELSE IF \A i \in DOMAIN r.tasks : r.tasks[i].pc = "fulfilled"
  THEN [r EXCEPT !.pc = "returned", !.remoteResult = PromiseAll(r.tasks, r.completed)]
  ELSE r

\* remotes.resolve(key) settles; resolved, the mapper calls deleteMany
TaskResolve(i, ok) ==
  /\ rr.pc \in {"scopes", "threw"}
  /\ i \in DOMAIN rr.tasks
  /\ rr.tasks[i].pc = "resolving"
  /\ LET key == rr.tasks[i].key
         idsStr == Group(RemoteIds(rr.ids), key)
     IN rr' =
          IF ok
          THEN [rr EXCEPT
                 !.tasks[i].pc = "deleting",
                 !.deleteManyCalls =
                    Append(@, [scope |-> key, ids |-> idsStr, force |-> rr.force])]
          ELSE Join([rr EXCEPT !.tasks[i].pc = "rejected",
                               !.tasks[i].error = "ResolveError"])
  /\ UNCHANGED <<cache, loaderCalls, call, world, rl, many, ix, bits, ld>>

\* resolvedRemote.deleteMany settles
TaskSettle(i, ok) ==
  /\ rr.pc \in {"scopes", "threw"}
  /\ i \in DOMAIN rr.tasks
  /\ rr.tasks[i].pc = "deleting"
  /\ LET key == rr.tasks[i].key
         idsStr == Group(RemoteIds(rr.ids), key)
     IN rr' =
          IF ok
          THEN Join([rr EXCEPT !.tasks[i].pc = "fulfilled",
                               !.tasks[i].result = DeleteManyResult(key, idsStr),
                               !.completed = Append(@, i)])
          ELSE Join([rr EXCEPT !.tasks[i].pc = "rejected",
                               !.tasks[i].error = "DeleteError"])
  /\ UNCHANGED <<cache, loaderCalls, call, world, rl, many, ix, bits, ld>>

(* ------------------------------- BitIds -------------------------------- *)

\* a BitId: scope (possibly none), name, version
BitId(scope, name, version) == [scope |-> scope, name |-> name, version |-> version]

\* the ids the collections are built from
BitIdUniverse ==
  {BitId(NoScope, "x", "0.0.1"), BitId("s1", "x", "0.0.1"), BitId("s1", "x", "0.0.2"),
   BitId(NoScope, "y", "0.0.1"), BitId("s2", "y", "0.0.1")}

\* arrays of ids
BitIdArrays == UNION {[1..n -> BitIdUniverse] : n \in 0..MaxBatch}

LATEST_BIT_VERSION == "latest"

\* BitId: comparisons and conversions
HasSameName(id, bitId) == id.name = bitId.name
HasSameScope(id, bitId) == id.scope = bitId.scope
HasSameVersion(id, bitId) == id.version = bitId.version
IsEqual(id, bitId) ==
  HasSameName(id, bitId) /\ HasSameScope(id, bitId) /\ HasSameVersion(id, bitId)
IsEqualWithoutVersion(id, bitId) == HasSameName(id, bitId) /\ HasSameScope(id, bitId)
ChangeVersion(id, version) == [id EXCEPT !.version = version]

\* a string as the list of its parts: scope/name or name
ToStringWithoutVersion(id) ==
  IF id.scope # NoScope THEN <<id.scope, id.name>> ELSE <<id.name>>

\* scope/name@version
IdToString(id) == Append(ToStringWithoutVersion(id), id.version)

\* BitId.parse(str, true): the first part is the scope
Parse(str) == BitId(str[1], str[2], str[3])

\* this.find(...): the position of the first match, 0 for undefined
FindFirst(ids, Test(_)) ==
  IF \E i \in DOMAIN ids : Test(ids[i])
  THEN CHOOSE i \in DOMAIN ids : Test(ids[i]) /\ \A j \in 1..(i - 1) : ~Test(ids[j])
  ELSE 0

Search(this, bitId) == LET Test(id) == IsEqual(id, bitId) IN FindFirst(this, Test)
SearchWithoutVersion(this, bitId) ==
  LET Test(id) == IsEqualWithoutVersion(id, bitId) IN FindFirst(this, Test)
SearchWithoutScopeAndVersion(this, bitId) ==
  LET Test(id) == HasSameName(id, bitId) IN FindFirst(this, Test)

\* Boolean(this.search...(bitId))
Has(this, bitId) == Search(this, bitId) # 0
HasWithoutVersion(this, bitId) == SearchWithoutVersion(this, bitId) # 0

FilterWithoutVersion(this, bitId) ==
  LET Test(id) == IsEqualWithoutVersion(id, bitId) IN SelectSeq(this, Test)
FilterWithoutScopeAndVersion(this, bitId) ==
  LET Test(id) == HasSameName(id, bitId) IN SelectSeq(this, Test)

\* BitIds.fromArray(ids): a new collection, the ids pushed one by one
RECURSIVE FromArray(_)
FromArray(ids) ==
  IF ids = <<>> THEN <<>>
  ELSE Append(FromArray(SubSeq(ids, 1, Len(ids) - 1)), ids[Len(ids)])

\* BitIds.deserialize(array)
Deserialize(array) == [i \in DOMAIN array |-> Parse(array[i])]

RemoveIfExist(this, bitId) ==
  LET Keep(id) == ~IsEqual(id, bitId) IN FromArray(SelectSeq(this, Keep))

\* slip: the ids are compared without their version
Difference_WithoutVersion(this, bitIds) ==
  LET Keep(id) == ~HasWithoutVersion(bitIds, id) IN FromArray(SelectSeq(this, Keep))

Difference(this, bitIds) ==
  LET Keep(id) == Search(bitIds, id) = 0 IN FromArray(SelectSeq(this, Keep))

RemoveIfExistWithoutVersion(this, bitId) ==
  LET Keep(id) == ~IsEqualWithoutVersion(id, bitId) IN FromArray(SelectSeq(this, Keep))

RemoveMultipleIfExistWithoutVersion(this, bitIds) ==
  LET Keep(id) == ~HasWithoutVersion(bitIds, id) IN FromArray(SelectSeq(this, Keep))

\* add(bitIds): this after the pushes
RECURSIVE Add(_, _)
Add(this, bitIds) ==
  IF bitIds = <<>> THEN this
  ELSE Add(IF Search(this, Head(bitIds)) = 0 THEN Append(this, Head(bitIds)) ELSE this,
           Tail(bitIds))

ToVersionLatest(this) ==
  FromArray(UniqFromArray([i \in DOMAIN this |-> ChangeVersion(this[i], LATEST_BIT_VERSION)]))

\* new BitIds(...this.map((id) => id.clone()))
Clone(this) == [i \in DOMAIN this |-> BitId(this[i].scope, this[i].name, this[i].version)]

\* an object as the list of its own keys in insertion order
KeyPos(obj, key) == LET Test(e) == e.key = key IN FindFirst(obj, Test)

\* obj[key] = value
Assign(obj, key, value) ==
  IF KeyPos(obj, key) # 0
  THEN [obj EXCEPT ![KeyPos(obj, key)].value = value]
  ELSE Append(obj, [key |-> key, value |-> value])

\* if (acc[key]) acc[key].push(current); else acc[key] = new BitIds(current)
PushToGroup(acc, key, current) ==
  IF KeyPos(acc, key) # 0
  THEN [acc EXCEPT ![KeyPos(acc, key)].value = Append(@, current)]
  ELSE Append(acc, [key |-> key, value |-> <<current>>])

RECURSIVE ReduceByIdWithoutVersion(_, _)
ReduceByIdWithoutVersion(acc, ids) ==
  IF ids = <<>> THEN acc
  ELSE ReduceByIdWithoutVersion(
         PushToGroup(acc, ToStringWithoutVersion(Head(ids)), Head(ids)), Tail(ids))

ToGroupByIdWithoutVersion(this) == ReduceByIdWithoutVersion(<<>>, this)

\* getScopeName(): the id's own scope, else the scope of the first id of
\* idsWithDefaultScope with the same name, else null
GetScopeName(current, idsWithDefaultScope) ==
  IF current.scope # NoScope THEN current.scope
  ELSE LET p == SearchWithoutScopeAndVersion(idsWithDefaultScope, current)
       IN IF p # 0 THEN idsWithDefaultScope[p].scope ELSE NoScope

\* what a call of a BitIds method ends in
Threw == [threw |-> TRUE, object |-> <<>>]
Returned(object) == [threw |-> FALSE, object |-> object]

RECURSIVE ReduceByScopeName(_, _, _)
ReduceByScopeName(acc, ids, idsWithDefaultScope) ==
  IF ids = <<>> THEN Returned(acc)
  ELSE LET scopeName == GetScopeName(Head(ids), idsWithDefaultScope)
       IN IF scopeName = NoScope THEN Threw
          ELSE ReduceByScopeName(PushToGroup(acc, <<scopeName>>, Head(ids)),
                                 Tail(ids), idsWithDefaultScope)

ToGroupByScopeName(this, idsWithDefaultScope) ==
  ReduceByScopeName(<<>>, this, idsWithDefaultScope)

\* this.forEach(...) of findDuplicationsIgnoreVersion
\* found: per member, the member and the sameIds its filter gave
RECURSIVE ForEachDuplication(_, _)
ForEachDuplication(duplications, found) ==
  IF found = <<>> THEN duplications
  ELSE LET id == Head(found).id
           sameIds == Head(found).sameIds
       IN ForEachDuplication(
            IF Len(sameIds) > 1
            THEN Assign(duplications, ToStringWithoutVersion(id), sameIds)
            ELSE duplications,
            Tail(found))

\* slip: ids of different scopes count as the same
FindDuplicationsIgnoreVersion_IgnoreScope(this) ==
  ForEachDuplication(<<>>,
    [i \in DOMAIN this |->
       [id |-> this[i], sameIds |-> FilterWithoutScopeAndVersion(this, this[i])]])

FindDuplicationsIgnoreVersion(this) ==
  ForEachDuplication(<<>>,
    [i \in DOMAIN this |->
       [id |-> this[i], sameIds |-> FilterWithoutVersion(this, this[i])]])

\* throwForDuplicationIgnoreVersion(): does it throw
ThrowForDuplicationIgnoreVersion(this) ==
  \E i \in DOMAIN this : Len(FilterWithoutVersion(this, this[i])) > 1

\* the collection at hand and the last call made: on which collection
\* (before), with what argument, what the collection is afterwards (this),
\* and what the call gave back
IdleBits ==
  [op |-> "new", before |-> <<>>, arg |-> <<>>, this |-> <<>>,
   kind |-> "collection", out |-> <<>>, object |-> <<>>]

InitBits == bits = IdleBits

BitsCall(op, arg, after, kind, out, object) ==
  /\ bits.op = "new"
  /\ bits' = [op |-> op, before |-> bits.this, arg |-> arg, this |-> after,
              kind |-> kind, out |-> out, object |-> object]
  /\ UNCHANGED <<cache, loaderCalls, call, world, rl, many, ix, rr, ld>>

\* the static constructors
BitsFromArray(ids) ==
  BitsCall("fromArray", ids, bits.this, "collection", FromArray(ids), <<>>)

BitsUniqFromArray(ids) ==
  BitsCall("uniqFromArray", ids, bits.this, "collection",
           FromArray(UniqFromArray(ids)), <<>>)

BitsDeserialize(array) ==
  BitsCall("deserialize", array, bits.this, "collection", Deserialize(array), <<>>)

\* the caller goes on, with the collection it called or the one it was given
BitsContinue ==
  /\ bits.op # "new"
  /\ \E next \in {bits.this} \cup
                 (IF bits.kind = "collection" /\ Len(bits.out) <= MaxBatch
                  THEN {bits.out} ELSE {}) :
       bits' = [IdleBits EXCEPT !.this = next]
  /\ UNCHANGED <<cache, loaderCalls, call, world, rl, many, ix, rr, ld>>

\* the methods
BitsAdd(bitIds) ==
  /\ bits.op = "new"
  /\ Len(Add(bits.this, bitIds)) <= MaxBatch
  /\ BitsCall("add", bitIds, Add(bits.this, bitIds), "undefined", <<>>, <<>>)

BitsDifference(bitIds) ==
  BitsCall("difference", bitIds, bits.this, "collection",
           Difference(bits.this, bitIds), <<>>)

BitsRemoveIfExist(bitId) ==
  BitsCall("removeIfExist", <<bitId>>, bits.this, "collection",
           RemoveIfExist(bits.this, bitId), <<>>)

BitsRemoveIfExistWithoutVersion(bitId) ==
  BitsCall("removeIfExistWithoutVersion", <<bitId>>, bits.this, "collection",
           RemoveIfExistWithoutVersion(bits.this, bitId), <<>>)

BitsRemoveMultipleIfExistWithoutVersion(bitIds) ==
  BitsCall("removeMultipleIfExistWithoutVersion", bitIds, bits.this, "collection",
           RemoveMultipleIfExistWithoutVersion(bits.this, bitIds), <<>>)

BitsToVersionLatest ==
  BitsCall("toVersionLatest", <<>>, bits.this, "collection",
           ToVersionLatest(bits.this), <<>>)

BitsClone ==
  BitsCall("clone", <<>>, bits.this, "collection", Clone(bits.this), <<>>)

BitsToGroupByIdWithoutVersion ==
  BitsCall("toGroupByIdWithoutVersion", <<>>, bits.this, "object", <<>>,
           ToGroupByIdWithoutVersion(bits.this))

BitsToGroupByScopeName(idsWithDefaultScope) ==
  LET r == ToGroupByScopeName(bits.this, idsWithDefaultScope)
  IN BitsCall("toGroupByScopeName", idsWithDefaultScope, bits.this,
              IF r.threw THEN "threw" ELSE "object", <<>>, r.object)

BitsFindDuplicationsIgnoreVersion ==
  BitsCall("findDuplicationsIgnoreVersion", <<>>, bits.this, "object", <<>>,
           FindDuplicationsIgnoreVersion(bits.this))

BitsThrowForDuplicationIgnoreVersion ==
  BitsCall("throwForDuplicationIgnoreVersion", <<>>, bits.this,
           IF ThrowForDuplicationIgnoreVersion(bits.this) THEN "threw" ELSE "undefined",
           <<>>, <<>>)

(* ------------------------- LaneDiffCmd.report ------------------------- *)

\* a string is a sequence of pieces, each a text with the chalk styles on it
Text(s) == <<[styles |-> {}, text |-> s]>>

\* chalk.bold(s), chalk.inverse(s), chalk.red(s)
Chalk(style, str) == [i \in DOMAIN str |-> [str[i] EXCEPT !.styles = @ \cup {style}]]

\* strs.join('\n')
RECURSIVE JoinLines(_)
JoinLines(strs) ==
  IF strs = <<>> THEN <<>>
  ELSE IF Len(strs) = 1 THEN strs[1]
  ELSE strs[1] \o Text("\n") \o JoinLines(Tail(strs))

LaneNames == {"main", "dev"}
FailureMsgs == {"missing object"}
DiffFailures ==
  {<<>>} \cup {<<[id |-> id, msg |-> msg]>> : id \in Ids, msg \in FailureMsgs}

\* what outputDiffResults(compsWithDiff) prints
DiffResultsStrs == {<<>>, Text("diff")}

NewCompsTitle(laneName) ==
  Text("\nThe following components were introduced in ")
    \o Chalk("bold", Text(laneName)) \o Text(" lane")

\* newCompsOutput(laneName, ids): the closure reads the newCompsFrom of report
NewCompsOutput(laneName, ids, newCompsFrom) ==
  IF ids = <<>> THEN <<>>
  ELSE LET newCompsIdsStr == JoinLines([i \in DOMAIN ids |-> Chalk("bold", Text(ids[i]))])
           newCompsTitle == NewCompsTitle(laneName)
       IN IF newCompsFrom # <<>>
          THEN Chalk("inverse", newCompsTitle) \o Text("\n") \o newCompsIdsStr
          ELSE <<>>

FailuresStr(failures) ==
  LET failuresTitle == Text("\n\nDiff failed on the following component(s)")
      failuresIds ==
        JoinLines([i \in DOMAIN failures |->
          Text(failures[i].id) \o Text(" - ") \o Chalk("red", Text(failures[i].msg))])
  IN IF failures # <<>>
     THEN Chalk("inverse", failuresTitle) \o Text("\n") \o failuresIds
     ELSE <<>>

\* report, given what laneDiffGenerator.generate and outputDiffResults answer
Report(diffResultsStr, newCompsFrom, newCompsTo, toLaneName, fromLaneName, failures) ==
  LET failuresStr == FailuresStr(failures)
      newCompsToStr == NewCompsOutput(toLaneName, newCompsTo, newCompsFrom)
      newCompsFromStr == NewCompsOutput(fromLaneName, newCompsFrom, newCompsFrom)
  IN diffResultsStr \o newCompsToStr \o newCompsFromStr \o failuresStr

IdleLaneDiff ==
  [called |-> FALSE, newCompsFrom |-> <<>>, newCompsTo |-> <<>>,
   toLaneName |-> "main", fromLaneName |-> "main", failures |-> <<>>,
   out |-> <<>>]

InitLaneDiff == ld = IdleLaneDiff

LaneDiffReport(diffResultsStr, newCompsFrom, newCompsTo, toLaneName, fromLaneName, failures) ==
  /\ ~ld.called
  /\ ld' = [called |-> TRUE, newCompsFrom |-> newCompsFrom,
            newCompsTo |-> newCompsTo, toLaneName |-> toLaneName,
            fromLaneName |-> fromLaneName, failures |-> failures,
            out |-> Report(diffResultsStr, newCompsFrom, newCompsTo,
                           toLaneName, fromLaneName, failures)]
  /\ UNCHANGED <<cache, loaderCalls, call, world, rl, many, ix, rr, bits>>

\* the command line has printed the report and is ready for the next command;
\* the text stays on the terminal
LaneDiffPrinted ==
  /\ ld.called
  /\ ld' = [ld EXCEPT !.called = FALSE]
  /\ UNCHANGED <<cache, loaderCalls, call, world, rl, many, ix, rr, bits>>

(* --------------------------- specifications --------------------------- *)

\* the status loader, used by a client that calls one at a time
ClientHit ==
  \E c \in Callers, id \in Ids :
    CallHit(c, id) /\ UNCHANGED <<rl, many, ix, rr, bits, ld>>
ClientMiss ==
  \E c \in Callers, id \in Ids, sc \in Scenarios :
    CallMiss(c, id, sc) /\ UNCHANGED <<rl, many, ix, rr, bits, ld>>
ClientSettle == \E c \in Callers : CallSettle(c) /\ UNCHANGED <<rl, many, ix, rr, bits, ld>>
ClientRelease == \E c \in Callers : CallRelease(c) /\ UNCHANGED <<rl, many, ix, rr, bits, ld>>
ClientClear ==
  \E id \in Ids :
    /\ id \in DOMAIN cache
    /\ ClearOneComponentCache(id)
    /\ UNCHANGED <<rl, many, ix, rr, bits, ld>>
Edit == \E id \in Ids : WorkspaceChange(id) /\ UNCHANGED <<rl, many, ix, rr, bits, ld>>

Init == InitStatus /\ InitRemove /\ InitMany /\ InitIndex /\ InitRemote
  /\ InitBits /\ InitLaneDiff

Next ==
  \/ ClientHit
  \/ ClientMiss
  \/ ClientSettle
  \/ ClientRelease
  \/ ClientClear
  \/ Edit

Spec == Init /\ [][Next]_vars

\* one removeComponents call (remote = false) on a fresh status loader
RemoveBegin ==
  \E ids \in Batches, force \in BOOLEAN, track \in BOOLEAN, deleteFiles \in BOOLEAN :
    RemoveStart(ids, force, track, deleteFiles)
RemoveMiss == \E sc \in Scenarios : RemoveStatusMiss(sc)
RemoveEnd ==
  \E newComponents \in SUBSET Range(rl.bitIds), found \in SUBSET Range(rl.bitIds) :
    \E dependents \in SUBSET found, invalid \in SUBSET Range(rl.bitIds),
       lane \in BOOLEAN :
      RemoveFinish(newComponents, found, dependents, invalid, lane)

NextRemove ==
  \/ RemoveBegin
  \/ RemoveStatusHit
  \/ RemoveMiss
  \/ RemoveStatusSettle
  \/ RemoveClassify
  \/ RemoveEnd

SpecRemove == Init /\ [][NextRemove]_vars

\* one getManyComponentsStatuses call on a fresh status loader
ManyBegin == \E ids \in Batches : ManyStart(ids)
ManyHit == \E i \in DOMAIN many.ids : ManyCallHit(i)
ManyMiss == \E i \in DOMAIN many.ids, sc \in Scenarios : ManyCallMiss(i, sc)
ManySettle == \E i \in DOMAIN many.ids : ManyCallSettle(i)
ManyNext == \E i \in DOMAIN many.ids : ManyPush(i)

NextMany ==
  \/ ManyBegin
  \/ ManyHit
  \/ ManyMiss
  \/ ManySettle
  \/ ManyNext

SpecMany == Init /\ [][NextMany]_vars

\* one indexByDepId call on inputs a caller has put together
IndexDeclare ==
  \E origin \in Comps, key \in DepKeys, depId \in Names, range \in Ranges :
    Declare(origin, key, depId, range)
IndexPolicy == \E entry \in PolicyEntries : AddPolicyEntry(entry)
IndexRun == \E hoistedDepFields \in HoistedDepFields : IndexCall(hoistedDepFields)

NextIndex ==
  \/ IndexDeclare
  \/ IndexPolicy
  \/ IndexRun

SpecIndex == Init /\ [][NextIndex]_vars

\* one removeComponents call with remote = true
RemoteBegin == \E ids \in RemoteBatches, force \in BOOLEAN : RemoteStart(ids, force)
RemoteRemotes == \E shouldGoToCentralHub \in BOOLEAN : RemotesAnswer(shouldGoToCentralHub)
RemoteConnect == \E ok \in BOOLEAN : HubConnect(ok)
RemoteHub == \E ok \in BOOLEAN : HubSettle(ok)
RemoteResolve == \E i \in DOMAIN rr.tasks, ok \in BOOLEAN : TaskResolve(i, ok)
RemoteDelete == \E i \in DOMAIN rr.tasks, ok \in BOOLEAN : TaskSettle(i, ok)

NextRemote ==
  \/ RemoteBegin
  \/ RemotesFail
  \/ RemoteRemotes
  \/ RemoteConnect
  \/ RemoteHub
  \/ RemoteResolve
  \/ RemoteDelete

SpecRemote == Init /\ [][NextRemote]_vars

\* calls on BitIds collections
BitsBuild ==
  /\ bits.op = "new"
  /\ \E ids \in BitIdArrays : BitsFromArray(ids) \/ BitsUniqFromArray(ids)
BitsParse ==
  /\ bits.op = "new"
  /\ \E ids \in BitIdArrays :
       /\ \A i \in DOMAIN ids : ids[i].scope # NoScope
       /\ BitsDeserialize([i \in DOMAIN ids |-> IdToString(ids[i])])
BitsWithList ==
  /\ bits.op = "new"
  /\ \E bitIds \in BitIdArrays :
       \/ BitsAdd(bitIds)
       \/ BitsDifference(bitIds)
       \/ BitsRemoveMultipleIfExistWithoutVersion(bitIds)
       \/ BitsToGroupByScopeName(bitIds)
BitsWithId ==
  /\ bits.op = "new"
  /\ \E bitId \in BitIdUniverse :
       BitsRemoveIfExist(bitId) \/ BitsRemoveIfExistWithoutVersion(bitId)
BitsPlain ==
  \/ BitsToVersionLatest
  \/ BitsClone
  \/ BitsToGroupByIdWithoutVersion
  \/ BitsFindDuplicationsIgnoreVersion
  \/ BitsThrowForDuplicationIgnoreVersion

NextBitIds ==
  \/ BitsBuild
  \/ BitsParse
  \/ BitsContinue
  \/ BitsWithList
  \/ BitsWithId
  \/ BitsPlain

SpecBitIds == Init /\ [][NextBitIds]_vars

\* two clients of one status loader whose getComponentStatusById calls may
\* overlap: each call runs up to its await and resumes when getStatus settles
Overlapping == {1, BatchSlot(1)}

OverlapHit ==
  \E c \in Overlapping, id \in Ids :
    CallHit(c, id) /\ UNCHANGED <<rl, many, ix, rr, bits, ld>>
OverlapMiss ==
  \E c \in Overlapping, id \in Ids, sc \in Scenarios :
    CallMiss(c, id, sc) /\ UNCHANGED <<rl, many, ix, rr, bits, ld>>
OverlapSettle ==
  \E c \in Overlapping : CallSettle(c) /\ UNCHANGED <<rl, many, ix, rr, bits, ld>>
OverlapRelease ==
  \E c \in Overlapping : CallRelease(c) /\ UNCHANGED <<rl, many, ix, rr, bits, ld>>

NextOverlap ==
  \/ OverlapHit
  \/ OverlapMiss
  \/ OverlapSettle
  \/ OverlapRelease

SpecOverlap == Init /\ [][NextOverlap]_vars

\* one `bit lane diff` on what the lane diff generator has found
LaneDiffRun ==
  \E diffResultsStr \in DiffResultsStrs, newCompsFrom \in Batches,
     newCompsTo \in Batches, toLaneName \in LaneNames,
     fromLaneName \in LaneNames, failures \in DiffFailures :
    LaneDiffReport(diffResultsStr, newCompsFrom, newCompsTo, toLaneName,
                   fromLaneName, failures)

NextLaneDiff ==
  \/ LaneDiffRun
  \/ LaneDiffPrinted

SpecLaneDiff == Init /\ [][NextLaneDiff]_vars

(* ------------------------------- claims -------------------------------- *)

\* a getComponentStatusById call that ran getStatus and has settled
Settled(c) == call[c].pc \in {"returned", "rejected"} /\ call[c].computed

ModifiedSeen == {id \in DOMAIN rl.statuses : Truthy(rl.statuses[id].modified)}

RemovedIds == Range(rl.result.removedComponentIds)

\* C1, the claim as stated: a removeComponents call (remote = false) without
\* force lists every identity whose status is modified as modified and not as
\* removed; with force it lists every identity as removed.
C1_ForceRemovesAll ==
  rl.pc = "done" =>
    /\ ~rl.force =>
         \A id \in ModifiedSeen :
           id \in Range(rl.result.modifiedComponents) /\ id \notin RemovedIds
    /\ rl.force => \A id \in Range(rl.bitIds) : id \in RemovedIds

\* C1, amended: without force every identity whose status is modified is
\* listed as modified and not as removed; with force no identity is held
\* back as modified, and every identity is listed as removed or, when the
\* scope does not hold it and it is not new, as missing.
C1_ModifiedSkippedUnlessForce ==
  rl.pc = "done" =>
    /\ ~rl.force =>
         \A id \in ModifiedSeen :
           id \in Range(rl.result.modifiedComponents) /\ id \notin RemovedIds
    /\ rl.force =>
         /\ rl.result.modifiedComponents = <<>>
         /\ \A id \in Range(rl.bitIds) :
              id \in RemovedIds \cup Range(rl.result.missingComponents)

C1_Witness ==
  /\ rl.pc = "done"
  /\ ~rl.force
  /\ "a" \in ModifiedSeen
  /\ rl.result.modifiedComponents = <<"a">>
  /\ rl.result.removedComponentIds = <<"b">>

\* C2: without force, an identity whose status is modified is never handed
\* to scope.removeMany, deleteComponentsFiles or cleanFromBitMap, whatever
\* track and deleteFiles are.
C2_ModifiedNeverPassedOn ==
  ~rl.force =>
    \A id \in ModifiedSeen :
      /\ id \notin Range(rl.removeMany.ids)
      /\ id \notin Range(rl.deleteComponentsFiles.ids)
      /\ id \notin Range(rl.cleanFromBitMap.ids)

C2_Witness ==
  /\ rl.pc = "done"
  /\ ~rl.force
  /\ "b" \in ModifiedSeen
  /\ rl.removeMany = CalledWith(<<"a">>)
  /\ rl.deleteComponentsFiles = CalledWith(<<"a">>)
  /\ rl.cleanFromBitMap = CalledWith(<<"a">>)

\* C3: a status that getStatus produced is stored as the cache entry and
\* returned; a call made while the cache holds an entry for the identity
\* returns that very entry and does not invoke the loader, whatever the entry.
C3_CachedStatusServedOnce ==
  [][\A c \in Slots :
       /\ (call[c].pc = "pending" /\ call'[c].pc = "returned") =>
            /\ call[c].id \in DOMAIN cache'
            /\ cache'[call[c].id] = call[c].out.status
            /\ call'[c].out = Returns(call[c].out.status)
       /\ (call[c].pc = "idle" /\ call'[c].pc # "idle"
             /\ call'[c].id \in DOMAIN cache) =>
            /\ call'[c].pc = "returned"
            /\ call'[c].out = Returns(cache[call'[c].id])
            /\ loaderCalls' = loaderCalls
            /\ cache' = cache]_vars

C3_Witness ==
  \E c \in Callers :
    /\ call[c].pc = "returned"
    /\ ~call[c].computed
    /\ loaderCalls[call[c].id] = 1
    /\ call[c].out.status = EmptyStatus
    /\ call[c].id \in DOMAIN cache
    /\ cache[call[c].id] = call[c].out.status

\* C4: when the loader fails with ComponentsPendingImport, the status record
\* returned has missingFromScope = true.
C4_PendingImportIsMissingFromScope ==
  \A c \in Slots :
    (Settled(c) /\ call[c].sc.load = "ComponentsPendingImport") =>
      /\ call[c].pc = "returned"
      /\ Truthy(call[c].out.status.missingFromScope)

\* C5: when the loader fails with a missing-files, not-found-in-path or
\* not-in-bitmap error, the call returns a status: deleted = true if a model
\* record exists, notExist = true otherwise; the error is not propagated.
C5_FilesMissingIsDeletedOrNotExist ==
  \A c \in Slots :
    (Settled(c) /\ call[c].sc.load \in FilesMissingErrors) =>
      /\ call[c].pc = "returned"
      /\ call[c].out.err = "none"
      /\ call[c].sc.model # "none" =>
           call[c].out.status = [EmptyStatus EXCEPT !.deleted = "true"]
      /\ call[c].sc.model = "none" =>
           call[c].out.status = [EmptyStatus EXCEPT !.notExist = "true"]

C5_Witness ==
  \E c \in Callers :
    /\ call[c].pc = "returned"
    /\ call[c].computed
    /\ call[c].sc.load = "MissingBitMapComponent"
    /\ call[c].sc.model = "none"
    /\ Truthy(call[c].out.status.notExist)

\* C6: a status record with deleted = true is for an identity that has a
\* model record, on every path of getStatus.
C6_DeletedHasModelRecord ==
  \A c \in Slots :
    (Settled(c) /\ call[c].pc = "returned" /\ Truthy(call[c].out.status.deleted)) =>
      call[c].sc.model # "none"

\* C7: when the working copy loads and there is no model record, or its head
\* is VERSION_ZERO, the status is newlyCreated = true and neither staged nor
\* modified is computed.
C7_NewlyCreated ==
  \A c \in Slots :
    (Settled(c) /\ call[c].sc.load = "ok" /\ call[c].sc.model \in {"none", "zero"}) =>
      /\ call[c].pc = "returned"
      /\ Truthy(call[c].out.status.newlyCreated)
      /\ call[c].out.status.staged = "undefined"
      /\ call[c].out.status.modified = "undefined"

C7_Witness ==
  \E c \in Callers :
    /\ call[c].pc = "returned"
    /\ call[c].computed
    /\ call[c].sc.load = "ok"
    /\ call[c].sc.model = "zero"
    /\ Truthy(call[c].out.status.newlyCreated)

TrueFacets(s, facets) == {f \in facets : Truthy(s[f])}

\* C8: every status record returned by getComponentStatusById, computed or
\* taken from the cache, has at most one of notExist, deleted, newlyCreated
\* true.
C8_AtMostOneTerminalFacet ==
  \A c \in Slots :
    call[c].pc = "returned" =>
      Cardinality(TrueFacets(call[c].out.status,
                             {"notExist", "deleted", "newlyCreated"})) <= 1

C8_Witness ==
  \E c \in Callers :
    /\ call[c].pc = "returned"
    /\ call[c].sc.load = "removed"
    /\ call[c].sc.model = "none"
    /\ TrueFacets(call[c].out.status, {"notExist", "deleted", "newlyCreated"})
         = {"deleted"}

\* C9: when the working copy loads, the model record has a real head and the
\* loaded component's id has no version, the call fails with
\* ComponentOutOfSync and returns no status record.
C9_OutOfSync ==
  \A c \in Slots :
    (Settled(c) /\ call[c].sc.load = "ok" /\ call[c].sc.model = "versioned"
       /\ ~call[c].sc.hasVersion) =>
      /\ call[c].pc = "rejected"
      /\ call[c].out.err = "ComponentOutOfSync"

C9_Witness ==
  \E c \in Callers :
    /\ call[c].pc = "rejected"
    /\ call[c].sc.load = "ok"
    /\ call[c].sc.model = "versioned"
    /\ ~call[c].sc.hasVersion
    /\ call[c].out.err = "ComponentOutOfSync"

\* the errors of the loader that getStatus turns into a status
ConvertedErrors == FilesMissingErrors \cup {"ComponentsPendingImport"}

\* C10: an error of the computation that is not a missing-files,
\* not-in-bitmap or pending-import error rejects the call with that same
\* error, and a rejected call leaves no cache entry for its identity, so the
\* next call computes again.
C10_OtherErrorsPropagateUncached ==
  \A c \in Slots :
    /\ (Settled(c) /\ call[c].sc.load \notin ConvertedErrors \cup {"ok", "removed"}) =>
         /\ call[c].pc = "rejected"
         /\ call[c].out.err = call[c].sc.load
    /\ call[c].pc = "rejected" =>
         /\ call[c].out.err # "none"
         /\ call[c].id \notin DOMAIN cache

C10_Witness ==
  \E c \in Callers :
    /\ call[c].pc = "rejected"
    /\ call[c].sc.load = "GeneralError"
    /\ call[c].out.err = "GeneralError"
    /\ call[c].id \notin DOMAIN cache
    /\ loaderCalls[call[c].id] = 2

\* C11: after removeComponents (remote = false) has removed an identity, the
\* status cache holds no entry for it, so its next status is recomputed.
C11_RemovedIdsNotCached ==
  rl.pc = "done" => \A id \in RemovedIds : id \notin DOMAIN cache

\* C12: clearOneComponentCache(id) removes the entry of exactly that
\* identity and leaves every other entry as it was; a call for an identity
\* that has no entry runs getStatus and invokes the loader again.
C12_ClearRemovesExactlyOne ==
  [][/\ \A id \in Ids :
          (id \in DOMAIN cache /\ ClearOneComponentCache(id)) =>
            /\ DOMAIN cache' = DOMAIN cache \ {id}
            /\ \A j \in DOMAIN cache' : cache'[j] = cache[j]
     /\ \A c \in Slots :
          (call[c].pc = "idle" /\ call'[c].pc # "idle"
             /\ call'[c].id \notin DOMAIN cache) =>
            /\ call'[c].pc = "pending"
            /\ loaderCalls'[call'[c].id] = loaderCalls[call'[c].id] + 1]_vars

C12_Witness ==
  \E c \in Callers :
    /\ call[c].pc = "pending"
    /\ call[c].id = "a"
    /\ loaderCalls["a"] = 2
    /\ "a" \notin DOMAIN cache
    /\ "b" \in DOMAIN cache
    /\ call[c].out.err = "none"

InFlight == {i \in DOMAIN many.ids : call[BatchSlot(i)].pc = "pending"}

\* C13: getManyComponentsStatuses has at most one status computation in
\* flight, enters the mapper of an id only after the mappers of the ids
\* before it have finished, and returns one result per input id, in input
\* order, each carrying the record stored for that id.
C13_BatchIsSequentialAndOrdered ==
  /\ Cardinality(InFlight) <= 1
  /\ \A i \in DOMAIN many.ids : Started(i) => \A j \in 1..(i - 1) : j \in many.done
  /\ many.pc = "done" =>
       /\ Len(many.results) = Len(many.ids)
       /\ \A i \in DOMAIN many.ids :
            /\ many.results[i].id = many.ids[i]
            /\ many.ids[i] \in DOMAIN cache
            /\ many.results[i].status = cache[many.ids[i]]

C13_Witness ==
  /\ many.pc = "done"
  /\ many.ids = <<"b", "a">>
  /\ Len(many.results) = 2
  /\ many.results[1].id = "b"
  /\ Truthy(many.results[1].status.modified)
  /\ Truthy(many.results[2].status.newlyCreated)

\* what indexByDepId was given and what it returned
IxMap == ix.componentDependenciesMap
IxResult == ix.result

\* the keys of a component's buckets that are considered, in iteration order
ConsideredKeys(depsObject) ==
  IF ix.hoistedDepFields.given
  THEN LET Present(k) == HasKey(depsObject, k)
       IN SelectSeq(ix.hoistedDepFields.fields, Present)
  ELSE LET NotMeta(k) == k # "peerDependenciesMeta"
       IN SelectSeq([j \in DOMAIN depsObject |-> depsObject[j].key], NotMeta)

\* the names some component declares in a considered bucket
DeclaredNames ==
  {n \in Names :
     \E i \in DOMAIN IxMap :
       \E k \in Range(ConsideredKeys(IxMap[i].depsObject)) :
         \E d \in Range(ValueAt(IxMap[i].depsObject, k)) : d.depId = n}

\* C14: the keys of the returned index are exactly the dependency names some
\* component declares in a considered bucket; a root policy entry for a name
\* no component declares makes no index entry.
C14_KeysAreDeclaredNames ==
  ix.pc = "indexed" => DOMAIN IxResult = DeclaredNames

C14_Witness ==
  /\ ix.pc = "indexed"
  /\ DOMAIN IxResult = {"left-pad"}
  /\ \E p \in Range(ix.rootPolicy) : p.dependencyId = "react" /\ p.value.preserve

\* the preserve entries of the root policy for one name, in policy order
PreserveEntries(n) ==
  LET Test(p) == p.value.preserve /\ p.dependencyId = n
  IN SelectSeq(ix.rootPolicy, Test)

\* C15: an entry's metadata carries preservedVersion and
\* preservedLifecycleType exactly when the root policy has a preserve entry
\* for the name, with the values of that entry (the last one, when the policy
\* names it twice); other entries have empty metadata, and the policy step
\* leaves every entry's componentItems as the component pass built them.
C15_MetadataFromPreserveEntries ==
  ix.pc = "indexed" =>
    \A n \in DOMAIN IxResult :
      LET pres == PreserveEntries(n)
          built == ForEachComponent(<<>>, IxMap, ix.hoistedDepFields)
      IN /\ (IxResult[n].metadata # EmptyMetadata) <=> (pres # <<>>)
         /\ pres # <<>> =>
              /\ IxResult[n].metadata.preservedVersion = pres[Len(pres)].value.version
              /\ IxResult[n].metadata.preservedLifecycleType = pres[Len(pres)].lifecycleType
         /\ n \in DOMAIN built
         /\ IxResult[n].componentItems = built[n].componentItems

C15_Witness ==
  /\ ix.pc = "indexed"
  /\ "left-pad" \in DOMAIN IxResult
  /\ IxResult["left-pad"].metadata =
       [preservedVersion |-> "1.3.0", preservedLifecycleType |-> "peer"]
  /\ IxResult["left-pad"].componentItems =
       <<[origin |-> "X", range |-> "^1.0.0", lifecycleType |-> "runtime"]>>

RECURSIVE Concat(_)
Concat(ss) == IF ss = <<>> THEN <<>> ELSE Head(ss) \o Concat(Tail(ss))

\* the componentItems one component contributes for a name, bucket by bucket
ItemsOfComponent(comp, n) ==
  LET keys == ConsideredKeys(comp.depsObject)
      Declares(d) == d.depId = n
      OfBucket(k) ==
        LET found == SelectSeq(ValueAt(comp.depsObject, k), Declares)
        IN [j \in DOMAIN found |->
              [origin |-> comp.origin, range |-> found[j].range,
               lifecycleType |-> CASE k = "dependencies" -> "runtime"
                                   [] k = "devDependencies" -> "dev"
                                   [] k = "peerDependencies" -> "peer"]]
  IN Concat([j \in DOMAIN keys |-> OfBucket(keys[j])])

\* C16: for each name the index holds exactly one componentItem per
\* (component, considered bucket) declaring it, with that component as
\* origin, the declared range and the bucket's lifecycle type, in
\* component-then-bucket iteration order; the considered buckets are the
\* hoistedDepFields when given, otherwise all but peerDependenciesMeta.
C16_OneItemPerDeclaration ==
  ix.pc = "indexed" =>
    \A n \in Names :
      LET expected == Concat([i \in DOMAIN IxMap |-> ItemsOfComponent(IxMap[i], n)])
      IN IF expected = <<>>
         THEN n \notin DOMAIN IxResult
         ELSE n \in DOMAIN IxResult /\ IxResult[n].componentItems = expected

C16_Witness ==
  /\ ix.pc = "indexed"
  /\ ~ix.hoistedDepFields.given
  /\ \E i \in DOMAIN IxMap : HasKey(IxMap[i].depsObject, "peerDependenciesMeta")
  /\ "left-pad" \in DOMAIN IxResult
  /\ IxResult["left-pad"].componentItems =
       <<[origin |-> "Y", range |-> "^2.0.0", lifecycleType |-> "dev"]>>

\* C17, the claim as stated: a removeComponents call with remote = false and
\* an id that has no scope is rejected with the unscoped-removal error and
\* removes nothing.
C17_UnscopedLocalRejected ==
  (rl.pc \in {"done", "threw"} /\ \E id \in Range(rl.bitIds) : IsLocal(id)) =>
    /\ rl.pc = "threw"
    /\ rl.error = NoScopeNameError
    /\ RemovedIds = {}

\* C17: a removeComponents call with remote = false is never rejected for an
\* id that has no scope: the unscoped-removal error is not raised, the ids
\* without a scope go through the status loop and the removal like the
\* others, and every id the call hands on for removal was given to it.
C17_UnscopedLocalProceeds ==
  (rl.pc # "idle" /\ \E id \in Range(rl.bitIds) : IsLocal(id)) =>
    /\ rl.error # NoScopeNameError
    /\ rl.pc = "done" =>
         /\ rl.removeMany.called
         /\ RemovedIds \subseteq Range(rl.bitIds)
         /\ rl.force =>
              \A id \in Range(rl.bitIds) :
                IsLocal(id) => id \in Range(rl.removeMany.ids) \/ id \in RemovedIds

C17_Witness ==
  /\ rl.pc = "done"
  /\ rl.bitIds = <<"b", "a">>
  /\ ~rl.force
  /\ "a" \in RemovedIds
  /\ rl.error = "none"

\* C18: a removeComponents call with remote = true and an id that has no
\* scope throws the unscoped-removal error before any deleteMany or
\* deleteViaCentralHub call is issued, also for the ids that have a scope,
\* and removes nothing locally.
C18_UnscopedRemoteThrowsFirst ==
  (rr.pc # "idle" /\ \E id \in Range(rr.ids) : IsLocal(id)) =>
    /\ rr.pc = "threw"
    /\ rr.error = NoScopeNameError
    /\ rr.hubCalls = <<>>
    /\ rr.deleteManyCalls = <<>>
    /\ rr.tasks = <<>>
    /\ rr.remoteResult = <<>>
    /\ rl = IdleRemove

C18_Witness ==
  /\ rr.pc = "threw"
  /\ rr.ids = <<"b", "a">>
  /\ rr.error = NoScopeNameError
  /\ rr.deleteManyCalls = <<>>

TasksIn(pcs) == {i \in DOMAIN rr.tasks : rr.tasks[i].pc \in pcs}

\* C19, the claim as stated: when the delete call of one scope fails and the
\* calls of the other scopes succeed, removeComponents returns the results of
\* the successful scopes.
C19_PartialSuccessReturned ==
  (/\ TasksIn({"fulfilled", "rejected"}) = DOMAIN rr.tasks
   /\ TasksIn({"fulfilled"}) # {}
   /\ \E i \in TasksIn({"rejected"}) : rr.tasks[i].error = "DeleteError") =>
    /\ rr.pc = "returned"
    /\ \A i \in TasksIn({"fulfilled"}) : rr.tasks[i].result \in Range(rr.remoteResult)

\* the deleteMany calls issued for one scope
CallsOf(key) == {j \in DOMAIN rr.deleteManyCalls : rr.deleteManyCalls[j].scope = key}

\* C20: without the central hub removeRemote issues at most one deleteMany
\* call per distinct scope, each with exactly the ids of that scope and the
\* caller's force, and no hub call; when it returns, every scope has had
\* its one call and the i-th result is the one of the i-th scope group,
\* whatever order the calls fulfilled in. With the central hub it issues one
\* deleteViaCentralHub call with all ids and no deleteMany call.
C20_OneCallPerScopeResultsByPosition ==
  LET bitIds == RemoteIds(rr.ids)
      keys == GroupKeys(bitIds)
  IN /\ rr.pc \in {"connect", "hub"} \/ rr.hubCalls # <<>> =>
          /\ rr.deleteManyCalls = <<>>
          /\ Len(rr.hubCalls) <= 1
          /\ rr.pc \in {"hub", "returned"} =>
               rr.hubCalls = <<[ids |-> rr.ids, force |-> rr.force, idsAreLanes |-> FALSE]>>
     /\ rr.tasks # <<>> =>
          /\ rr.hubCalls = <<>>
          /\ \A j \in DOMAIN rr.deleteManyCalls :
               /\ rr.deleteManyCalls[j].scope \in Range(keys)
               /\ Range(rr.deleteManyCalls[j].ids) =
                    {id \in Range(rr.ids) : ScopeOf(id) = rr.deleteManyCalls[j].scope}
               /\ rr.deleteManyCalls[j].force = rr.force
          /\ \A k \in Range(keys) : Cardinality(CallsOf(k)) <= 1
          /\ rr.pc = "returned" =>
               /\ \A k \in Range(keys) : Cardinality(CallsOf(k)) = 1
               /\ Len(rr.remoteResult) = Len(keys)
               /\ \A i \in DOMAIN keys : rr.remoteResult[i].scope = keys[i]

C20_Witness ==
  /\ rr.pc = "returned"
  /\ rr.ids = <<"b", "d">>
  /\ rr.completed = <<2, 1>>
  /\ Len(rr.deleteManyCalls) = 2
  /\ rr.remoteResult[1].scope = "s1"
  /\ rr.remoteResult[2].scope = "s2"

\* C21, the claim as stated: without force, an error raised while the status
\* of one identity is computed aborts only that identity; the status loop goes
\* on with the remaining identities and removeLocal returns a result.
C21_StatusErrorAbortsOneIdentity ==
  (rl.pc # "idle" /\ ~rl.force) => rl.pc \in {"status", "remove", "done"}

\* the removal candidates of removeLocal
Candidates == Range(IdsToRemove(rl.force, rl.bitIds, rl.nonModifiedComponents))

\* C22: a removal candidate that listNewComponents reports as new is never
\* handed to scope.removeMany and is always in the final removal set; every
\* other candidate is handed to scope.removeMany and is in the final removal
\* set exactly when the scope reports it removed.
C22_CandidatesSplitByNewness ==
  rl.pc = "done" =>
    \A id \in Candidates :
      IF id \in rl.newComponents
      THEN id \notin Range(rl.removeMany.ids) /\ id \in RemovedIds
      ELSE /\ id \in Range(rl.removeMany.ids)
           /\ id \in RemovedIds <=> id \in Range(rl.removedFromScope)

C22_Witness ==
  /\ rl.pc = "done"
  /\ rl.bitIds = <<"a", "b">>
  /\ rl.newComponents = {"a"}
  /\ rl.removeMany = CalledWith(<<"b">>)
  /\ rl.removedFromScope = <<>>
  /\ RemovedIds = {"a"}

SameIdentity(a, b) == a.name = b.name /\ a.scope = b.scope /\ a.version = b.version
SameStripped(a, b) == a.name = b.name /\ a.scope = b.scope

\* C24: S.difference(T) contains no identity that T contains under full
\* equality, is the list of the members of S that T lacks in their order in
\* S, and S.difference(S) is empty.
C24_DifferenceKeepsWhatTLacks ==
  bits.op = "difference" =>
    LET S == bits.before
        T == bits.arg
        D == bits.out
        Lacked(id) == \A j \in DOMAIN T : ~SameIdentity(id, T[j])
    IN /\ bits.kind = "collection"
       /\ \A i \in DOMAIN D : \A j \in DOMAIN T : ~SameIdentity(D[i], T[j])
       /\ D = SelectSeq(S, Lacked)
       /\ S = T => D = <<>>

C24_Witness ==
  /\ bits.op = "difference"
  /\ bits.before = <<BitId("s1", "x", "0.0.1"), BitId("s1", "x", "0.0.2")>>
  /\ bits.arg = <<BitId("s1", "x", "0.0.1")>>
  /\ bits.out = <<BitId("s1", "x", "0.0.2")>>

NoDuplicates(ids) ==
  \A i, j \in DOMAIN ids : SameIdentity(ids[i], ids[j]) => i = j

\* C25, the claim as stated: no BitIds collection that the constructors and
\* operations give holds two identities equal under full equality.
C25_CollectionsHoldNoDuplicates ==
  /\ NoDuplicates(bits.this)
  /\ bits.kind = "collection" => NoDuplicates(bits.out)
  /\ bits.kind = "object" =>
       \A g \in DOMAIN bits.object : NoDuplicates(bits.object[g].value)

\* C26, the claim as stated: difference, removeIfExist,
\* removeIfExistWithoutVersion, removeMultipleIfExistWithoutVersion, add,
\* toVersionLatest and clone leave the members and the order of the collection
\* they are called on unchanged and return a new collection.
C26_TransformationsLeaveReceiver ==
  bits.op \in {"difference", "removeIfExist", "removeIfExistWithoutVersion",
               "removeMultipleIfExistWithoutVersion", "add", "toVersionLatest",
               "clone"} =>
    /\ bits.this = bits.before
    /\ bits.kind = "collection"

\* the scope some identity of the fallback set with the same name supplies
HasDefaultScope(id, fallback) ==
  \E j \in DOMAIN fallback : fallback[j].name = id.name /\ fallback[j].scope # NoScope

\* C27, the claim as stated: toGroupByScopeName(fallback) throws exactly when
\* some member has no scope and no identity of the fallback set with the same
\* name has a scope; otherwise every member is in exactly one group, the one
\* of its own scope or of a scope the fallback set supplies for its name.
C27_ThrowsIffNoScopeAnywhere ==
  bits.op = "toGroupByScopeName" =>
    LET S == bits.before
        fallback == bits.arg
        Unresolved(id) == id.scope = NoScope /\ ~HasDefaultScope(id, fallback)
    IN /\ bits.kind = "threw" <=> \E i \in DOMAIN S : Unresolved(S[i])
       /\ bits.kind # "threw" =>
            \A i \in DOMAIN S :
              \E g \in DOMAIN bits.object :
                /\ S[i] \in Range(bits.object[g].value)
                /\ \A h \in DOMAIN bits.object :
                     S[i] \in Range(bits.object[h].value) => h = g

\* the members of a collection equal to an identity ignoring version
Colliding(S, id) == LET Test(m) == SameStripped(m, id) IN SelectSeq(S, Test)

\* C28: findDuplicationsIgnoreVersion has an entry for a version-stripped
\* identity exactly when two or more members are equal to it ignoring
\* version, and the entry holds all of those members;
\* throwForDuplicationIgnoreVersion throws exactly when there is such a pair.
C28_DuplicationsAreVersionCollisions ==
  LET S == bits.before
      Collides == \E i, j \in DOMAIN S : i # j /\ SameStripped(S[i], S[j])
  IN /\ bits.op = "findDuplicationsIgnoreVersion" =>
          /\ bits.kind = "object"
          /\ \A i \in DOMAIN S :
               LET p == KeyPos(bits.object, ToStringWithoutVersion(S[i]))
               IN IF Len(Colliding(S, S[i])) >= 2
                  THEN p # 0 /\ bits.object[p].value = Colliding(S, S[i])
                  ELSE p = 0
          /\ \A g \in DOMAIN bits.object :
               \E i \in DOMAIN S : bits.object[g].key = ToStringWithoutVersion(S[i])
          /\ (bits.object # <<>>) <=> Collides
     /\ bits.op = "throwForDuplicationIgnoreVersion" =>
          (bits.kind = "threw" <=> Collides)

C28_Witness ==
  /\ bits.op = "findDuplicationsIgnoreVersion"
  /\ bits.before = <<BitId("s1", "x", "0.0.1"), BitId("s1", "x", "0.0.2")>>
  /\ bits.object = <<[key |-> <<"s1", "x">>, value |-> bits.before]>>

\* C29: when two getComponentStatusById calls for the same identity overlap
\* (the second starts before the first has settled), the loader is still
\* invoked only once for that identity and both calls return the same record
C29_OverlappingCallsLoadOnce ==
  \A c \in Overlapping, d \in Overlapping :
    (c # d /\ call[c].pc = "pending" /\ call[d].pc = "pending"
       /\ call[c].id = call[d].id)
    => ~(call[c].computed /\ call[d].computed)

\* the heading of a lane followed by the given ids, one per line, stands in
\* the output
ListedUnder(out, laneName, ids) ==
  LET section ==
        Chalk("inverse", NewCompsTitle(laneName)) \o Text("\n")
          \o JoinLines([i \in DOMAIN ids |-> Chalk("bold", Text(ids[i]))])
  IN \E p \in 1..Len(out) :
       /\ p + Len(section) - 1 <= Len(out)
       /\ SubSeq(out, p, p + Len(section) - 1) = section

\* C30: the report lists newCompsTo under the to-lane heading whenever
\* newCompsTo is non-empty, and newCompsFrom under the from-lane heading
\* whenever newCompsFrom is non-empty, each independently of the other
C30_NewComponentsListedIndependently ==
  ld.called =>
    /\ ld.newCompsTo # <<>> => ListedUnder(ld.out, ld.toLaneName, ld.newCompsTo)
    /\ ld.newCompsFrom # <<>> =>
         ListedUnder(ld.out, ld.fromLaneName, ld.newCompsFrom)

=============================================================================
